---- MODULE Spec2Model ----
(***************************************************************************)
(* The OCR menu of Bookworm (bookworm/ocr/ocr_menu.py) as a state machine. *)
(* The UI thread runs one handler at a time; engine calls run in the       *)
(* background and their results come back to the UI thread one by one.     *)
(***************************************************************************)
EXTENDS Naturals, Sequences, FiniteSets, Bags

VARIABLES
    stored_options,       \* service.stored_options (None or the persisted options)
    saved_scanned_pages,  \* service.saved_scanned_pages: page number -> recognized text
    ocr_cancelled,        \* self._ocr_cancelled (threading.Event)
    auto_scan_item,       \* check state of the "Automatic OCR" menu item
    loaded,               \* a document is loaded in the reader
    current_page,         \* reader.current_page (0 when no document is loaded)
    content,              \* text shown by view.set_content
    text_direction,       \* view.set_text_direction(is_rtl)
    requests,             \* the OCR requests in flight (a bag: results come
                          \* back in any order)
    ocr_started,          \* number of ocr-started signals sent
    ocr_ended,            \* number of ocr-ended signals sent
    extraction,           \* the batch text extraction (Scan To Text File)
    word,                 \* the Word converter: its storage area and the
                          \* conversions submitted to the process pool
    last                  \* the handler that ran last and what it did

vars == <<stored_options, saved_scanned_pages, ocr_cancelled, auto_scan_item,
          loaded, current_page, content, text_direction, requests,
          ocr_started, ocr_ended, extraction, word, last>>

----------------------------------------------------------------------------
(* Bounds *)

\* dispatches (_run_ocr calls) followed in one run
MaxRequests == 2
\* pages of the loaded document
NumPages == 2
\* Word documents opened in one run
MaxConversions == 3

Pages == 1..NumPages

----------------------------------------------------------------------------
(* Values *)

\* the OCR languages the engine can offer; "ar" is written right to left
Languages == {"en", "ar"}

is_rtl(language) == language = "ar"

\* Python's None for an options value
None == [language |-> "None", store_options |-> FALSE]

\* what OCROptionsDialog.ShowModal() can return: None on cancel, else the
\* chosen options; with force_save the "store options" box is checked
DialogResults(force_save) ==
    {None} \cup
    { [language |-> l, store_options |-> s] :
        l \in Languages, s \in (IF force_save THEN {TRUE} ELSE BOOLEAN) }

NoText == [kind |-> "empty", page |-> 0, language |-> "None"]

\* the text the reader shows for a page by itself: odd pages are scanned
\* images without a text layer, even pages carry text
PageText(p) ==
    IF p % 2 = 1 THEN NoText ELSE [kind |-> "doc", page |-> p, language |-> "None"]

\* engine.preprocess_and_recognize: the result echoes the request's cookie
Recognize(request) ==
    [cookie |-> request.cookie,
     recognized_text |-> [kind |-> "ocr", page |-> request.cookie,
                          language |-> request.language]]

NoPages == [p \in {} |-> NoText]

\* d[key] = value of a Python dict
DictSet(d, key, value) ==
    [k \in (DOMAIN d) \cup {key} |-> IF k = key THEN value ELSE d[k]]

----------------------------------------------------------------------------
(* The menu's state as one record, so that a handler is an operator from   *)
(* state to state and handlers can call each other as the code does.       *)
(* The last five fields log what the running handler did: how the dialog   *)
(* of its last option resolution ended ("none": not shown, the engine's    *)
(* languages not queried), the options that resolution returned, the       *)
(* number of requests dispatched and of scan_current_page calls, whether the page was shown from the scan *)
(* cache, and the request whose result was processed.                      *)

\* no batch extraction has been started
NoExtraction ==
    [st |-> "idle", total |-> 0, produced |-> 0, ended |-> "no",
     abort |-> FALSE, abort_at |-> 0, log |-> <<>>]

NoRequest ==
    [cookie |-> 0, language |-> "None", kind |-> "none", st |-> "none",
     dismissed |-> FALSE, outdated |-> FALSE,
     events |-> <<>>]

\* the requests in flight when the scan cache is invalidated (document
\* unloaded, options resolved anew) were dispatched before the invalidation
Outdated(bag) ==
    LET marked(req) == [req EXCEPT !.outdated = TRUE]
        count(req) == IF req \in DOMAIN bag THEN bag[req] ELSE 0
    IN  IF \A r \in DOMAIN bag : r.outdated
        THEN bag
        ELSE [req \in {marked(r) : r \in DOMAIN bag} |->
                 count(req) + count([req EXCEPT !.outdated = FALSE])]

Self ==
    [stored_options |-> stored_options,
     saved_scanned_pages |-> saved_scanned_pages,
     ocr_cancelled |-> ocr_cancelled,
     auto_scan_item |-> auto_scan_item,
     loaded |-> loaded,
     current_page |-> current_page,
     content |-> content,
     text_direction |-> text_direction,
     requests |-> requests,
     ocr_started |-> ocr_started,
     ocr_ended |-> ocr_ended,
     extraction |-> extraction,
     dlg |-> "none",
     opts |-> None,
     dispatched |-> 0,
     scans |-> 0,
     served_from_cache |-> FALSE,
     processed |-> NoRequest]

\* _get_ocr_options_from_dlg without line 167: the scan cache survives the
\* dialog
_get_ocr_options_from_dlg_keeps_pages(self, force_save, langs, choice) ==
    IF langs = {}
    THEN [opts |-> None, dlg |-> "nolangs", self |-> self]
    ELSE [opts |-> choice, dlg |-> IF choice = None THEN "cancel" ELSE "ok",
          self |-> self]

\* langs: what get_sorted_languages() returns; choice: what the dialog returns
_get_ocr_options_from_dlg(self, force_save, langs, choice) ==
    IF langs = {}
    THEN [opts |-> None, dlg |-> "nolangs", self |-> self]
    ELSE [opts |-> choice, dlg |-> IF choice = None THEN "cancel" ELSE "ok",
          self |-> [self EXCEPT !.saved_scanned_pages = NoPages]]

\* _get_ocr_options without line 133: a non-cached resolution forgets the
\* options but keeps the scan cache
_get_ocr_options_keeps_pages(self, from_cache, force_save, langs, choice) ==
    LET s1 == IF ~from_cache
              THEN [self EXCEPT !.stored_options = None,
                                !.requests = Outdated(@)]
              ELSE self
    IN  IF s1.stored_options # None
        THEN [opts |-> s1.stored_options,
              self |-> [s1 EXCEPT !.dlg = "none", !.opts = s1.stored_options]]
        ELSE LET d == _get_ocr_options_from_dlg(s1, force_save, langs, choice)
                 kept == IF d.opts # None /\ d.opts.store_options
                         THEN d.opts ELSE None
             IN  [opts |-> d.opts,
                  self |-> [d.self EXCEPT
                              !.stored_options = kept,
                              !.dlg = d.dlg, !.opts = d.opts]]

\* _get_ocr_options with line 140 reading "if opts is not None": options are
\* kept whether or not they ask to be stored
_get_ocr_options_always_stores(self, from_cache, force_save, langs, choice) ==
    LET s1 == IF ~from_cache
              THEN [self EXCEPT !.stored_options = None,
                                !.saved_scanned_pages = NoPages,
                                !.requests = Outdated(@)]
              ELSE self
    IN  IF s1.stored_options # None
        THEN [opts |-> s1.stored_options,
              self |-> [s1 EXCEPT !.dlg = "none", !.opts = s1.stored_options]]
        ELSE LET d == _get_ocr_options_from_dlg(s1, force_save, langs, choice)
             IN  [opts |-> d.opts,
                  self |-> [d.self EXCEPT
                              !.stored_options = d.opts,
                              !.dlg = d.dlg, !.opts = d.opts]]

\* _get_ocr_options without lines 134-135: the dialog is shown even when
\* options are stored
_get_ocr_options_always_prompts(self, from_cache, force_save, langs, choice) ==
    LET s1 == IF ~from_cache
              THEN [self EXCEPT !.stored_options = None,
                                !.saved_scanned_pages = NoPages,
                                !.requests = Outdated(@)]
              ELSE self
        d == _get_ocr_options_from_dlg(s1, force_save, langs, choice)
        kept == IF d.opts # None /\ d.opts.store_options THEN d.opts ELSE None
    IN  [opts |-> d.opts,
         self |-> [d.self EXCEPT !.stored_options = kept,
                                 !.dlg = d.dlg, !.opts = d.opts]]

_get_ocr_options(self, from_cache, force_save, langs, choice) ==
    LET s1 == IF ~from_cache
              THEN [self EXCEPT !.stored_options = None,
                                !.saved_scanned_pages = NoPages,
                                !.requests = Outdated(@)]
              ELSE self
    IN  IF s1.stored_options # None
        THEN [opts |-> s1.stored_options,
              self |-> [s1 EXCEPT !.dlg = "none", !.opts = s1.stored_options]]
        ELSE LET d == _get_ocr_options_from_dlg(s1, force_save, langs, choice)
                 kept == IF d.opts # None /\ d.opts.store_options
                         THEN d.opts ELSE None
             IN  [opts |-> d.opts,
                  self |-> [d.self EXCEPT
                              !.stored_options = kept,
                              !.dlg = d.dlg, !.opts = d.opts]]

\* _run_ocr with lines 201 and 205 exchanged: the engine call is submitted
\* before ocr-started is sent
_run_ocr_submits_first(self, cookie, language, kind) ==
    [self EXCEPT
        !.requests = @ (+) SetToBag({[cookie |-> cookie, language |-> language,
                                      kind |-> kind, st |-> "running",
                                      dismissed |-> FALSE,
                                      outdated |-> FALSE,
                                      events |-> <<"submitted", "ocr_started">>]}),
        !.ocr_started = @ + 1,
        !.dispatched = @ + 1]

\* _run_ocr: ocr-started is sent, then the engine call is submitted to the
\* background worker by AsyncSnakDialog
_run_ocr(self, cookie, language, kind) ==
    [self EXCEPT
        !.requests = @ (+) SetToBag({[cookie |-> cookie, language |-> language,
                                      kind |-> kind, st |-> "running",
                                      dismissed |-> FALSE,
                                      outdated |-> FALSE,
                                      events |-> <<"ocr_started", "submitted">>]}),
        !.ocr_started = @ + 1,
        !.dispatched = @ + 1]

\* onScanCurrentPage without lines 176-178: the page is scanned again even
\* when its text is in the scan cache
onScanCurrentPage_rescans(self, langs, choice) ==
    LET r == _get_ocr_options([self EXCEPT !.ocr_cancelled = FALSE,
                                           !.scans = @ + 1],
                              TRUE, FALSE, langs, choice)
    IN  IF r.opts = None
        THEN r.self
        ELSE _run_ocr(r.self, r.self.current_page, r.opts.language, "page")

onScanCurrentPage(self, langs, choice) ==
    LET r == _get_ocr_options([self EXCEPT !.ocr_cancelled = FALSE,
                                           !.scans = @ + 1],
                              TRUE, FALSE, langs, choice)
        s1 == r.self
    IN  IF r.opts = None
        THEN s1
        ELSE IF s1.current_page \in DOMAIN s1.saved_scanned_pages
        THEN [s1 EXCEPT !.content = s1.saved_scanned_pages[s1.current_page],
                        !.served_from_cache = TRUE]
        ELSE _run_ocr(s1, s1.current_page, r.opts.language, "page")

\* _ocr_callback without the test of line 188: the result is shown whatever
\* page is displayed
_ocr_callback_always_shows(self, req, ocr_result) ==
    [self EXCEPT
        !.saved_scanned_pages = DictSet(@, ocr_result.cookie,
                                        ocr_result.recognized_text),
        !.content = ocr_result.recognized_text,
        !.text_direction = is_rtl(req.language)]

\* the _ocr_callback closure of onScanCurrentPage for request req
_ocr_callback(self, req, ocr_result) ==
    LET page_number == ocr_result.cookie
        text == ocr_result.recognized_text
        s1 == [self EXCEPT !.saved_scanned_pages = DictSet(@, page_number, text)]
    IN  IF page_number = s1.current_page
        THEN [s1 EXCEPT !.content = text,
                        !.text_direction = is_rtl(req.language)]
        ELSE s1

\* _on_reader_unloaded without line 384: the Automatic OCR item stays checked
_on_reader_unloaded_keeps_auto(self) ==
    [self EXCEPT !.loaded = FALSE, !.current_page = 0, !.content = NoText,
                 !.stored_options = None,
                 !.saved_scanned_pages = NoPages,
                 !.requests = Outdated(@)]

\* reader unload followed by the handler connected to reader_book_unloaded
_on_reader_unloaded(self) ==
    [self EXCEPT !.loaded = FALSE, !.current_page = 0, !.content = NoText,
                 !.stored_options = None,
                 !.saved_scanned_pages = NoPages,
                 !.requests = Outdated(@),
                 !.auto_scan_item = FALSE]

\* the _ocr_callback closure of onScanImageFile for request req
_image_ocr_callback(self, req, ocr_result) ==
    LET s1 == IF self.loaded THEN _on_reader_unloaded(self) ELSE self
    IN  [s1 EXCEPT !.content = ocr_result.recognized_text,
                   !.text_direction = is_rtl(req.language)]

Callback(self, req, ocr_result) ==
    IF req.kind = "page"
    THEN _ocr_callback(self, req, ocr_result)
    ELSE _image_ocr_callback(self, req, ocr_result)

\* request req of the bag becomes request new
Replace(bag, req, new) == (bag (-) SetToBag({req})) (+) SetToBag({new})

\* the finished task of request req is handed to its done callback: the
\* request is in flight no longer
Taken(self, req) == [self EXCEPT !.requests = @ (-) SetToBag({req})]

\* request req leaves result processing with these events added, the last
\* of them an ocr-ended signal
Processed(self, req, events) ==
    [self EXCEPT !.ocr_ended = @ + 1,
                 !.processed = [req EXCEPT !.st = "processed",
                                           !.events = @ \o events]]

\* _process_ocr_result without the try/except of lines 358-363: the
\* exception of task.result() leaves the handler, no ocr-ended is sent
_process_ocr_result_raises(self, req, task_result) ==
    LET s0 == Taken(self, req)
    IN  IF s0.ocr_cancelled
        THEN [Processed(s0, req, <<"ocr_ended_faulted">>)
                 EXCEPT !.ocr_cancelled = FALSE]
        ELSE IF task_result = "exception"
        THEN [s0 EXCEPT !.processed = [req EXCEPT !.st = "processed",
                                                  !.events = @ \o <<"raised">>]]
        ELSE Processed(Callback(s0, req, Recognize(req)), req,
                       <<"callback", "ocr_ended">>)

\* _process_ocr_result(callback, task) on the UI thread, for the finished
\* task of request req; task_result: task.result() returns ("result") or
\* raises ("exception")
_process_ocr_result(self, req, task_result) ==
    LET s0 == Taken(self, req)
    IN  IF s0.ocr_cancelled
        THEN [Processed(s0, req, <<"ocr_ended_faulted">>)
                 EXCEPT !.ocr_cancelled = FALSE]
        ELSE IF task_result = "exception"
        THEN Processed(s0, req, <<"logged", "ocr_ended_faulted">>)
        ELSE Processed(Callback(s0, req, Recognize(req)), req,
                       <<"callback", "ocr_ended">>)

\* dismiss_callback of the wait dialog of request req
_on_ocr_cancelled(self, req) ==
    [self EXCEPT !.ocr_cancelled = TRUE,
                 !.requests = Replace(@, req, [req EXCEPT !.dismissed = TRUE])]

\* the menu item is a check item: wx toggles it, then the handler runs
onAutoScanPages(self, langs, choice1, choice2) ==
    LET s0 == [self EXCEPT !.auto_scan_item = ~@]
        s1 == IF s0.stored_options = None
              THEN _get_ocr_options(s0, TRUE, TRUE, langs, choice1).self
              ELSE s0
    IN  IF s1.content = NoText
        THEN onScanCurrentPage(s1, langs, choice2)
        ELSE s1

\* onScanToTextFile with line 226 reading _get_ocr_options(force_save=True):
\* the options are resolved from the cache
onScanToTextFile_from_cache(self, langs, choice, output_file) ==
    LET r == _get_ocr_options(self, TRUE, TRUE, langs, choice)
    IN  IF r.opts = None \/ ~output_file
        THEN r.self
        ELSE [r.self EXCEPT !.extraction =
                 [NoExtraction EXCEPT !.st = "thread", !.total = NumPages]]

\* output_file: the "Save as" dialog was confirmed with a file name; the
\* handler then opens the progress dialog and starts the extraction thread
onScanToTextFile(self, langs, choice, output_file) ==
    LET r == _get_ocr_options(self, FALSE, TRUE, langs, choice)
    IN  IF r.opts = None \/ ~output_file
        THEN r.self
        ELSE [r.self EXCEPT !.extraction =
                 [NoExtraction EXCEPT !.st = "thread", !.total = NumPages]]

onChangeOCROptions(self, langs, choice) ==
    _get_ocr_options(self, FALSE, FALSE, langs, choice).self

\* image_ok: the file dialog was confirmed and the image could be loaded
onScanImageFile(self, image_ok, langs, choice) ==
    IF ~image_ok
    THEN self
    ELSE LET d == _get_ocr_options_from_dlg(self, TRUE, langs, choice)
             s1 == [d.self EXCEPT !.dlg = d.dlg, !.opts = d.opts]
         IN  IF d.opts = None
             THEN s1
             ELSE _run_ocr(s1, 0, d.opts.language, "image")

\* _on_reader_page_changed without the test of line 387: every page change
\* scans
_on_reader_page_changed_always_scans(self, p, langs, choice) ==
    onScanCurrentPage([self EXCEPT !.current_page = p, !.content = PageText(p)],
                      langs, choice)

\* the reader turned to page p and sent reader_page_changed
_on_reader_page_changed(self, p, langs, choice) ==
    LET s0 == [self EXCEPT !.current_page = p, !.content = PageText(p)]
    IN  IF s0.auto_scan_item
        THEN onScanCurrentPage(s0, langs, choice)
        ELSE s0

\* the answer to the should_auto_navigate_to_next_page signal
on_should_auto_navigate_to_next_page(self) == ~self.auto_scan_item

_on_reader_loaded(self) ==
    [self EXCEPT !.loaded = TRUE, !.current_page = 1, !.content = PageText(1)]

----------------------------------------------------------------------------
(* The batch text extraction started by onScanToTextFile.  Its thread      *)
(* (_continue_with_text_extraction) reads the pages an engine process      *)
(* produces from a queue and reports each one to the progress dialog.      *)

\* the thread starts: the engine process is created, the abort callback of
\* the progress dialog and the done callback of the process are set
_continue_with_text_extraction(self) ==
    [self EXCEPT !.extraction.st = "iterating"]

\* engine process: between two pages it looks at the cancellation; it stops
\* when cancelled, else recognizes the next page, writes its text and puts
\* the page's index on the queue; after the last page it completes
scan_to_text(self) ==
    LET x == self.extraction
    IN  IF x.abort
        THEN [self EXCEPT !.extraction.ended = "aborted"]
        ELSE [self EXCEPT
                 !.extraction.produced = @ + 1,
                 !.extraction.ended =
                     IF x.produced + 1 = x.total THEN "completed" ELSE "no"]

\* the notifications the progress dialog got so far
Updates(x) == SelectSeq(x.log, LAMBDA n : n.e = "Update")

\* the loop body with Update(1, ...) for every page: the indicator does not
\* advance
progress_dlg_Update_same_value(self) ==
    [self EXCEPT !.extraction.log = Append(@, [e |-> "Update", v |-> 1])]

\* loop body: the next page index progress is read from the queue and
\* progress_dlg.Update(progress + 1, ...) is called
progress_dlg_Update(self) ==
    LET progress == Len(Updates(self.extraction))
    IN  [self EXCEPT
            !.extraction.log = Append(@, [e |-> "Update", v |-> progress + 1])]

\* the queue is exhausted and the process has ended: on completion its done
\* callback posts the "Successfully processed {total} pages" message box;
\* the thread leaves the loop and dismisses the progress dialog
progress_dlg_Dismiss(self) ==
    LET x == self.extraction
        summary == IF x.ended = "completed"
                   THEN <<[e |-> "summary", v |-> x.total]>> ELSE <<>>
    IN  [self EXCEPT
            !.extraction.log = @ \o summary \o <<[e |-> "Dismiss", v |-> 0]>>,
            !.extraction.st = "finished"]

\* the abort button of the progress dialog: scan2text_process.cancel
scan2text_process_cancel(self) ==
    [self EXCEPT !.extraction.abort = TRUE,
                 !.extraction.abort_at = self.extraction.produced]

----------------------------------------------------------------------------
(* The Word converter (bookworm/document/formats/word.py).  read() submits *)
(* get_converted_filename to the process pool; a conversion is followed    *)
(* statement by statement, since the workers of the pool run side by side. *)

\* the bytes a .docx file can hold
Contents == {1, 2}

\* generate_file_md5: different bytes, different digests
generate_file_md5(bytes) == 100 + bytes

\* mammoth.convert_to_html followed by make_proper_html
convert_to_html(bytes) == [html_of |-> bytes]

\* storage: the files of the docx_as_html storage area, by digest;
\* converted, written: how often each content was converted and each file
\* written; tasks: the conversions submitted so far
NoConversions ==
    [storage |-> [h \in {} |-> convert_to_html(1)],
     converted |-> [c \in Contents |-> 0],
     written |-> [c \in Contents |-> 0],
     tasks |-> <<>>]

\* read(): a document holding these bytes is opened
read(w, bytes) ==
    [w EXCEPT !.tasks = Append(@, [content |-> bytes, pc |-> "exists",
                                   target_file |-> 0])]

\* lines 53-56 of task i: the target file is named after the digest and
\* looked for
get_converted_filename_exists(w, i) ==
    LET target_file == generate_file_md5(w.tasks[i].content)
    IN  [w EXCEPT !.tasks[i].target_file = target_file,
                  !.tasks[i].pc = IF target_file \in DOMAIN w.storage
                                  THEN "return" ELSE "convert"]

\* lines 57-59 of task i: the converter runs
get_converted_filename_convert(w, i) ==
    [w EXCEPT !.converted[w.tasks[i].content] = @ + 1,
              !.tasks[i].pc = "write_text"]

\* line 60 of task i: the html is written to the target file
get_converted_filename_write_text(w, i) ==
    LET task == w.tasks[i]
    IN  [w EXCEPT !.storage = DictSet(@, task.target_file,
                                      convert_to_html(task.content)),
                  !.written[task.content] = @ + 1,
                  !.tasks[i].pc = "return"]

\* line 61 of task i, and read() raising ChangeDocument with the new uri
get_converted_filename_return(w, i) ==
    [w EXCEPT !.tasks[i].pc = "ChangeDocument"]

----------------------------------------------------------------------------
(* The state machine *)

NoRequests == EmptyBag

Init ==
    /\ stored_options = None
    /\ saved_scanned_pages = NoPages
    /\ ocr_cancelled = FALSE
    /\ auto_scan_item = FALSE
    /\ loaded = TRUE
    /\ current_page = 1
    /\ content = PageText(1)
    /\ text_direction = FALSE
    /\ requests = NoRequests
    /\ ocr_started = 0
    /\ ocr_ended = 0
    /\ extraction = NoExtraction
    /\ word = NoConversions
    /\ last = [op |-> "init", dlg |-> "none", served_from_cache |-> FALSE,
               processed |-> NoRequest]

\* the handler named op ran and left the menu in state s
Becomes(s, op) ==
    /\ s.ocr_started <= MaxRequests
    /\ stored_options' = s.stored_options
    /\ saved_scanned_pages' = s.saved_scanned_pages
    /\ ocr_cancelled' = s.ocr_cancelled
    /\ auto_scan_item' = s.auto_scan_item
    /\ loaded' = s.loaded
    /\ current_page' = s.current_page
    /\ content' = s.content
    /\ text_direction' = s.text_direction
    /\ requests' = s.requests
    /\ ocr_started' = s.ocr_started
    /\ ocr_ended' = s.ocr_ended
    /\ extraction' = s.extraction
    /\ word' = word
    /\ last' = [op |-> op, dlg |-> s.dlg,
                served_from_cache |-> s.served_from_cache,
                processed |-> s.processed]

\* what get_sorted_languages() may return when a handler asks
LanguageLists == {{}, Languages}

\* the inputs of a handler: the engine's languages, if the handler queries
\* them, and the user's answer to the options dialog, if it is shown
LangsIf(queried) == IF queried THEN LanguageLists ELSE {Languages}

ChoicesIf(shown, force_save) == IF shown THEN DialogResults(force_save) ELSE {None}

MenuScanCurrentPage ==
    /\ loaded
    /\ \E langs \in LangsIf(stored_options = None) :
       \E choice \in ChoicesIf(stored_options = None /\ langs # {}, FALSE) :
          Becomes(onScanCurrentPage(Self, langs, choice), "onScanCurrentPage")

MenuAutoScanPages ==
    /\ loaded
    /\ \E langs \in LangsIf(stored_options = None) :
       \E choice1 \in ChoicesIf(stored_options = None /\ langs # {}, TRUE) :
       \E choice2 \in ChoicesIf(stored_options = None /\ langs # {}
                                 /\ choice1 = None /\ content = NoText, FALSE) :
          Becomes(onAutoScanPages(Self, langs, choice1, choice2),
                  "onAutoScanPages")

\* Scan To Text File given up at the options dialog or at the file dialog
MenuScanToTextFile ==
    /\ loaded
    /\ \E langs \in LanguageLists :
       \E choice \in ChoicesIf(langs # {}, TRUE) :
          Becomes(onScanToTextFile(Self, langs, choice, FALSE),
                  "onScanToTextFile")

MenuChangeOCROptions ==
    /\ loaded
    /\ \E langs \in LanguageLists :
       \E choice \in ChoicesIf(langs # {}, FALSE) :
          Becomes(onChangeOCROptions(Self, langs, choice), "onChangeOCROptions")

MenuScanImageFile ==
    \E image_ok \in BOOLEAN :
    \E langs \in LangsIf(image_ok) :
    \E choice \in ChoicesIf(image_ok /\ langs # {}, TRUE) :
          Becomes(onScanImageFile(Self, image_ok, langs, choice),
                  "onScanImageFile")

\* the user dismisses the wait dialog of a request whose engine call runs
WaitDialogDismissed ==
    \E req \in BagToSet(requests) :
        /\ req.st = "running"
        /\ ~req.dismissed
        /\ Becomes(_on_ocr_cancelled(Self, req), "_on_ocr_cancelled")

\* the engine call finishing with _process_ocr_result not marshaled to the
\* UI thread (line 352 without @gui_thread_safe): the worker thread runs the
\* done callback itself
EngineCallFinishes_runs_callback ==
    \E req \in BagToSet(requests) :
        /\ req.st = "running"
        /\ LET done == [req EXCEPT !.st = "done"]
           IN  Becomes(_process_ocr_result(
                           [Self EXCEPT !.requests = Replace(@, req, done)],
                           done, "result"),
                       "engine")

\* background thread: the engine call of request req returns or raises; the
\* wait dialog goes away and the done callback is queued for the UI thread
EngineCallFinishes ==
    \E req \in BagToSet(requests) :
        /\ req.st = "running"
        /\ Becomes([Self EXCEPT !.requests =
                        Replace(@, req, [req EXCEPT !.st = "done"])],
                   "engine")

\* UI thread: the queued done callback of request req runs
ResultProcessed ==
    \E req \in BagToSet(requests), task_result \in {"result", "exception"} :
        /\ req.st = "done"
        /\ Becomes(_process_ocr_result(Self, req, task_result),
                   "_process_ocr_result")

PageChanged ==
    /\ loaded
    /\ \E p \in Pages \ {current_page} :
       \E langs \in LangsIf(auto_scan_item /\ stored_options = None) :
       \E choice \in ChoicesIf(auto_scan_item /\ stored_options = None
                                /\ langs # {}, FALSE) :
          Becomes(_on_reader_page_changed(Self, p, langs, choice),
                  "_on_reader_page_changed")

DocumentUnloaded ==
    /\ loaded
    /\ Becomes(_on_reader_unloaded(Self), "_on_reader_unloaded")

DocumentLoaded ==
    /\ ~loaded
    /\ Becomes(_on_reader_loaded(Self), "_on_reader_loaded")

Next ==
    \/ MenuScanCurrentPage
    \/ MenuAutoScanPages
    \/ MenuScanToTextFile
    \/ MenuChangeOCROptions
    \/ MenuScanImageFile
    \/ WaitDialogDismissed
    \/ EngineCallFinishes
    \/ ResultProcessed
    \/ PageChanged
    \/ DocumentUnloaded
    \/ DocumentLoaded

Spec == Init /\ [][Next]_vars

----------------------------------------------------------------------------
(* The menu while a batch text extraction runs: page scans and their       *)
(* results on the UI thread, the extraction thread and the engine process  *)
(* in the background.                                                      *)

\* Scan To Text File with options and file name confirmed
MenuExtractionStarts ==
    /\ loaded
    /\ extraction.st \in {"idle", "finished"}
    /\ \E choice \in DialogResults(TRUE) \ {None} :
          Becomes(onScanToTextFile(Self, Languages, choice, TRUE),
                  "onScanToTextFile")

ExtractionThreadStarts ==
    /\ extraction.st = "thread"
    /\ Becomes(_continue_with_text_extraction(Self),
               "_continue_with_text_extraction")

ProcessScansPage ==
    /\ extraction.st = "iterating"
    /\ extraction.ended = "no"
    /\ Becomes(scan_to_text(Self), "scan_to_text")

ProgressDelivered ==
    /\ extraction.st = "iterating"
    /\ Len(Updates(extraction)) < extraction.produced
    /\ Becomes(progress_dlg_Update(Self), "progress_dlg.Update")

ExtractionEnds ==
    /\ extraction.st = "iterating"
    /\ extraction.ended # "no"
    /\ Len(Updates(extraction)) = extraction.produced
    /\ Becomes(progress_dlg_Dismiss(Self), "progress_dlg.Dismiss")

\* the user presses Abort while the progress dialog is up
AbortPressed ==
    /\ extraction.st = "iterating"
    /\ ~extraction.abort
    /\ Becomes(scan2text_process_cancel(Self), "scan2text_process.cancel")

BatchNext ==
    \/ MenuScanCurrentPage
    \/ EngineCallFinishes
    \/ ResultProcessed
    \/ MenuScanToTextFile
    \/ MenuExtractionStarts
    \/ ExtractionThreadStarts
    \/ ProcessScansPage
    \/ ProgressDelivered
    \/ ExtractionEnds
    \/ AbortPressed

BatchSpec == Init /\ [][BatchNext]_vars

----------------------------------------------------------------------------
(* Word documents being opened *)

menu_vars ==
    <<stored_options, saved_scanned_pages, ocr_cancelled, auto_scan_item,
      loaded, current_page, content, text_direction, requests,
      ocr_started, ocr_ended, extraction, last>>

DocumentOpened ==
    /\ Len(word.tasks) < MaxConversions
    /\ \E bytes \in Contents : word' = read(word, bytes)
    /\ UNCHANGED menu_vars

\* task i of the pool at statement pc
At(i, pc) == i \in 1..Len(word.tasks) /\ word.tasks[i].pc = pc

TargetLookedFor ==
    /\ \E i \in 1..Len(word.tasks) :
          /\ At(i, "exists")
          /\ word' = get_converted_filename_exists(word, i)
    /\ UNCHANGED menu_vars

ConverterRuns ==
    /\ \E i \in 1..Len(word.tasks) :
          /\ At(i, "convert")
          /\ word' = get_converted_filename_convert(word, i)
    /\ UNCHANGED menu_vars

TargetWritten ==
    /\ \E i \in 1..Len(word.tasks) :
          /\ At(i, "write_text")
          /\ word' = get_converted_filename_write_text(word, i)
    /\ UNCHANGED menu_vars

ConversionReturns ==
    /\ \E i \in 1..Len(word.tasks) :
          /\ At(i, "return")
          /\ word' = get_converted_filename_return(word, i)
    /\ UNCHANGED menu_vars

WordNext ==
    \/ DocumentOpened
    \/ TargetLookedFor
    \/ ConverterRuns
    \/ TargetWritten
    \/ ConversionReturns

WordSpec == Init /\ [][WordNext]_vars

----------------------------------------------------------------------------
(* Properties *)

\* the handler that just ran
Ran(op) == last.op = op

\* the inputs a handler can meet
OptionsChoices == DialogResults(FALSE) \cup DialogResults(TRUE)

Started == <<"ocr_started", "submitted">>

Count(events, e) == Cardinality({k \in 1..Len(events) : events[k] = e})

\* from state pre to state post no request was dispatched, and the display
\* holds the text the scan cache of pre has for the page displayed in post
ShowsCached(pre, post) ==
    /\ post.requests = pre.requests
    /\ post.ocr_started = pre.ocr_started
    /\ post.current_page \in DOMAIN pre.saved_scanned_pages
    /\ post.content = pre.saved_scanned_pages[post.current_page]

\* C1 as amended: whenever options are cached and the current page P is in
\* the scan cache when onScanCurrentPage is invoked (from the menu, from the
\* Automatic OCR item or from a page change), the invocation dispatches
\* nothing to the engine, sends no ocr-started, and the display becomes
\* exactly the text cached for P.
C1_CachedPageShownWithoutEngine ==
    stored_options # None =>
        \A langs \in LanguageLists, choice \in OptionsChoices :
            /\ (loaded /\ current_page \in DOMAIN saved_scanned_pages) =>
                   ShowsCached(Self, onScanCurrentPage(Self, langs, choice))
            /\ (loaded /\ current_page \in DOMAIN saved_scanned_pages
                   /\ content = NoText) =>
                   ShowsCached(Self, onAutoScanPages(Self, langs, choice, choice))
            /\ \A p \in Pages :
                   (loaded /\ auto_scan_item /\ p \in DOMAIN saved_scanned_pages) =>
                       ShowsCached(Self, _on_reader_page_changed(Self, p, langs, choice))

\* C1's case has happened: the menu handler ran with options cached and
\* showed the page from the scan cache
C1_Witness ==
    /\ Ran("onScanCurrentPage")
    /\ last.served_from_cache
    /\ last.dlg = "none"
    /\ current_page \in DOMAIN saved_scanned_pages
    /\ content = saved_scanned_pages[current_page]

\* C1 as stated: whenever the current page P is in the scan cache when
\* onScanCurrentPage is invoked, whether or not options are cached, nothing
\* is dispatched and the display becomes the text cached for P.
C1_Original ==
    [][(last'.op = "onScanCurrentPage"
            /\ current_page \in DOMAIN saved_scanned_pages)
        => ShowsCached(Self, Self')]_vars

\* C2: when the successful result of a page request with cookie P is
\* delivered (the request was in flight, its engine call done, no
\* cancellation pending) while page Q is displayed, the recognized text is
\* stored in the scan cache under P; if Q # P the displayed content and the
\* text direction stay as they are, if Q = P the display becomes the
\* recognized text.
C2_ResultCachedShownOnlyOnItsPage ==
    \A req \in BagToSet(requests) :
        (req.kind = "page" /\ req.st = "done" /\ ~ocr_cancelled) =>
            LET s == _process_ocr_result(Self, req, "result")
                text == Recognize(req).recognized_text
            IN  /\ req.cookie \in DOMAIN s.saved_scanned_pages
                /\ s.saved_scanned_pages[req.cookie] = text
                /\ req.cookie # current_page =>
                       /\ s.content = content
                       /\ s.text_direction = text_direction
                /\ req.cookie = current_page => s.content = text

\* C2's case has happened: a result was delivered to the callback for a page
\* that is no longer displayed; it is in the cache and not on display
C2_Witness ==
    /\ Ran("_process_ocr_result")
    /\ last.processed.kind = "page"
    /\ last.processed.events = Started \o <<"callback", "ocr_ended">>
    /\ loaded
    /\ last.processed.cookie # current_page
    /\ last.processed.cookie \in DOMAIN saved_scanned_pages
    /\ content # saved_scanned_pages[last.processed.cookie]

\* C3: a request whose wait dialog the user dismissed before its engine call
\* completed never has its success callback invoked, and its processing
\* sends exactly one ocr-ended signal, with isfaulted = True.
C3_CancelledRequestEndsFaulted ==
    (Ran("_process_ocr_result") /\ last.processed.dismissed) =>
        /\ Count(last.processed.events, "callback") = 0
        /\ Count(last.processed.events, "ocr_ended") = 0
        /\ Count(last.processed.events, "ocr_ended_faulted") = 1

\* C4: every non-cached option resolution (from_cache=False, as Change OCR
\* Options and Scan To Text File ask for) leaves the scan cache empty when
\* it returns, whether the dialog is confirmed, cancelled or not shown for
\* want of languages; so do the two handlers.
C4_FreshResolutionEmptiesCache ==
    \A force_save \in BOOLEAN, langs \in LanguageLists :
        \A choice \in ChoicesIf(langs # {}, force_save) :
            /\ _get_ocr_options(Self, FALSE, force_save, langs, choice)
                   .self.saved_scanned_pages = NoPages
            /\ ~force_save =>
                   onChangeOCROptions(Self, langs, choice)
                       .saved_scanned_pages = NoPages
            /\ force_save =>
                   \A output_file \in BOOLEAN :
                       onScanToTextFile(Self, langs, choice, output_file)
                           .saved_scanned_pages = NoPages

\* C4's case has happened: Change OCR Options ran while the engine had no
\* languages, after a result had been cached, and the cache is empty
C4_Witness ==
    /\ Ran("onChangeOCROptions")
    /\ last.dlg = "nolangs"
    /\ ocr_ended > 0
    /\ saved_scanned_pages = NoPages

\* C5: when task.result() raises for a request the user did not cancel,
\* the success callback is not invoked, the scan cache and the display stay
\* as they were, exactly one ocr-ended is sent, with isfaulted = True, and
\* the exception does not leave result processing.
C5_EngineExceptionEndsFaulted ==
    \A req \in BagToSet(requests) :
        (req.st = "done" /\ ~req.dismissed) =>
            LET s == _process_ocr_result(Self, req, "exception")
                ev == s.processed.events
            IN  /\ Count(ev, "callback") = 0
                /\ Count(ev, "raised") = 0
                /\ Count(ev, "ocr_ended_faulted") = 1
                /\ Count(ev, "ocr_ended") = 0
                /\ s.ocr_ended = ocr_ended + 1
                /\ s.saved_scanned_pages = saved_scanned_pages
                /\ s.content = content
                /\ s.text_direction = text_direction

\* C5's case has happened: a request ended with the exception logged
C5_Witness ==
    /\ Ran("_process_ocr_result")
    /\ ~last.processed.dismissed
    /\ last.processed.events = Started \o <<"logged", "ocr_ended_faulted">>

\* the events of a request: one ocr-started, sent before the submission;
\* then, once processed, one ocr-ended signal, the last event; it is the
\* non-faulted one exactly if the callback ran, which then ran just before
WellFormed(ev) ==
    /\ Len(ev) >= 2
    /\ SubSeq(ev, 1, 2) = Started
    /\ Count(ev, "ocr_started") = 1
    /\ Count(ev, "submitted") = 1

WellEnded(ev) ==
    /\ WellFormed(ev)
    /\ Count(ev, "ocr_ended") + Count(ev, "ocr_ended_faulted") = 1
    /\ ev[Len(ev)] \in {"ocr_ended", "ocr_ended_faulted"}
    /\ Count(ev, "callback") = Count(ev, "ocr_ended")
    /\ ev[Len(ev)] = "ocr_ended" => ev[Len(ev) - 1] = "callback"

\* C6: every dispatch sends exactly one ocr-started before the engine call
\* is submitted; processing a finished request sends exactly one ocr-ended,
\* non-faulted if and only if the success callback was invoked, and then
\* after the callback; every request ever dispatched is in flight or has had
\* its one ocr-ended, so ocr-ended signals never outnumber ocr-started ones.
C6_OneStartedOneEnded ==
    /\ \A req \in BagToSet(requests) :
           /\ req.events = Started
           /\ req.st = "done" =>
                  \A task_result \in {"result", "exception"} :
                      LET s == _process_ocr_result(Self, req, task_result)
                      IN  /\ WellEnded(s.processed.events)
                          /\ s.ocr_ended = ocr_ended + 1
                          /\ s.ocr_started = ocr_started
    /\ last.processed # NoRequest => WellEnded(last.processed.events)
    /\ ocr_started = ocr_ended + BagCardinality(requests)
    /\ ocr_ended <= ocr_started

\* C6's case has happened: a request went through ocr-started, submission,
\* callback and a non-faulted ocr-ended while another is still in flight
C6_Witness ==
    /\ Ran("_process_ocr_result")
    /\ last.processed.events = Started \o <<"callback", "ocr_ended">>
    /\ ocr_started = 2
    /\ ocr_ended = 1

\* the handlers that resolve options through _get_ocr_options
Resolving ==
    {"onScanCurrentPage", "onAutoScanPages", "onChangeOCROptions",
     "onScanToTextFile", "_on_reader_page_changed"}

\* C7: when the engine reports no languages during option resolution, the
\* cached options and the scan cache are after the handler what they were
\* before it, for every entry point.
C7_NoLanguagesChangesNothing ==
    [][(last'.op \in Resolving /\ last'.dlg = "nolangs")
        => /\ stored_options' = stored_options
           /\ saved_scanned_pages' = saved_scanned_pages]_vars

\* C8 as amended: when the user cancels the options dialog of
\* onScanCurrentPage, nothing is dispatched, no ocr-started or ocr-ended is
\* sent, the displayed content and the cached options (none) are the same as
\* before; the scan cache is empty afterwards, whatever it held before.
C8_CancelledDialogDispatchesNothing ==
    (loaded /\ stored_options = None) =>
        LET s == onScanCurrentPage(Self, Languages, None)
        IN  /\ s.dlg = "cancel"
            /\ s.requests = requests
            /\ s.ocr_started = ocr_started
            /\ s.ocr_ended = ocr_ended
            /\ s.content = content
            /\ s.text_direction = text_direction
            /\ s.stored_options = stored_options
            /\ s.saved_scanned_pages = NoPages

\* C8's case has happened: the dialog of the menu's scan was cancelled after
\* a result had been cached, and the cache is empty
C8_Witness ==
    /\ Ran("onScanCurrentPage")
    /\ last.dlg = "cancel"
    /\ ocr_ended > 0
    /\ stored_options = None
    /\ saved_scanned_pages = NoPages

\* C8 as stated: when the user cancels the options dialog of
\* onScanCurrentPage, nothing is dispatched, no signal is sent, and the
\* displayed content, the scan cache and the cached options are the same as
\* before.
C8_Original ==
    [][(last'.op = "onScanCurrentPage" /\ last'.dlg = "cancel")
        => /\ requests' = requests
           /\ ocr_started' = ocr_started
           /\ ocr_ended' = ocr_ended
           /\ content' = content
           /\ saved_scanned_pages' = saved_scanned_pages
           /\ stored_options' = stored_options]_vars

\* C9: a resolution that goes through the dialog leaves in the
\* cached-options slot the returned options if they ask to be stored, and
\* nothing otherwise (not stored, cancelled, no languages); so cached
\* options always have store_options = True, and with the slot empty the
\* next cached resolution goes through the dialog again.
C9_SlotHoldsOnlyOptionsToStore ==
    /\ stored_options # None => stored_options.store_options
    /\ \A from_cache \in BOOLEAN, force_save \in BOOLEAN, langs \in LanguageLists :
           \A choice \in DialogResults(force_save) :
               LET r == _get_ocr_options(Self, from_cache, force_save, langs, choice)
               IN  /\ r.self.dlg # "none" =>
                          r.self.stored_options =
                              IF r.opts # None /\ r.opts.store_options
                              THEN r.opts ELSE None
                   /\ (from_cache /\ stored_options = None) => r.self.dlg # "none"

\* C9's case has happened: the dialog returned options that do not ask to be
\* stored; the scan was dispatched with them and the slot is empty
C9_Witness ==
    /\ Ran("onScanCurrentPage")
    /\ last.dlg = "ok"
    /\ stored_options = None
    /\ BagCardinality(requests) > 0

\* C10: a resolution with from_cache=True while options are cached returns
\* exactly the cached options, shows no dialog and does not query the
\* engine's languages, and leaves the cached options and the scan cache as
\* they are.
C10_CachedResolutionIsSilent ==
    stored_options # None =>
        \A force_save \in BOOLEAN, langs \in LanguageLists :
            \A choice \in DialogResults(force_save) :
                LET r == _get_ocr_options(Self, TRUE, force_save, langs, choice)
                IN  /\ r.opts = stored_options
                    /\ r.self.dlg = "none"
                    /\ r.self.stored_options = stored_options
                    /\ r.self.saved_scanned_pages = saved_scanned_pages

\* C10's case has happened: a scan resolved its options from the cache, with
\* a non-empty scan cache left in place
C10_Witness ==
    /\ Ran("onScanCurrentPage")
    /\ last.dlg = "none"
    /\ stored_options # None
    /\ saved_scanned_pages # NoPages

\* C11: right after a document-unloaded event the cached options are
\* cleared, the scan cache is empty and automatic OCR is off, whatever the
\* state before the unload.
C11_UnloadTearsDown ==
    /\ LET s == _on_reader_unloaded(Self)
       IN  /\ s.stored_options = None
           /\ s.saved_scanned_pages = NoPages
           /\ ~s.auto_scan_item
    /\ Ran("_on_reader_unloaded") =>
           /\ stored_options = None
           /\ saved_scanned_pages = NoPages
           /\ ~auto_scan_item

\* C11's case has happened: the document was unloaded after a scan had been
\* dispatched and its result delivered
C11_Witness ==
    /\ Ran("_on_reader_unloaded")
    /\ ocr_ended > 0
    /\ stored_options = None
    /\ saved_scanned_pages = NoPages
    /\ ~auto_scan_item

\* the steps of a batch extraction after the handler has started it
ExtractionOps ==
    {"_continue_with_text_extraction", "scan_to_text", "progress_dlg.Update",
     "progress_dlg.Dismiss", "scan2text_process.cancel"}

\* what the steps of the extraction make of state s
ExtractionSteps(s) ==
    {_continue_with_text_extraction(s), scan_to_text(s), progress_dlg_Update(s),
     progress_dlg_Dismiss(s), scan2text_process_cancel(s)}

\* C12 as amended: Scan To Text File starts with a non-cached option
\* resolution, so invoking it leaves the scan cache empty, whether the
\* options dialog is confirmed, cancelled or not shown and whatever the file
\* dialog returns; the extraction it starts does not touch the scan cache or
\* the cached options, and does not read the scan cache: its steps do the
\* same with the cache emptied.
C12_ExtractionIgnoresCache ==
    /\ \A langs \in LanguageLists, choice \in DialogResults(TRUE),
          output_file \in BOOLEAN :
           LET s == onScanToTextFile(Self, langs, choice, output_file)
           IN  /\ s.saved_scanned_pages = NoPages
               /\ s.content = content
               /\ s.ocr_started = ocr_started
    /\ extraction.st # "idle" =>
           /\ \A s \in ExtractionSteps(Self) :
                  /\ s.saved_scanned_pages = saved_scanned_pages
                  /\ s.stored_options = stored_options
           /\ { s.extraction : s \in ExtractionSteps(Self) } =
              { s.extraction : s \in ExtractionSteps(
                    [Self EXCEPT !.saved_scanned_pages = NoPages]) }

\* C12's case has happened: an extraction ran to completion while the scan
\* cache held a page scanned since the extraction was started
C12_Witness ==
    /\ Ran("progress_dlg.Dismiss")
    /\ extraction.ended = "completed"
    /\ saved_scanned_pages # NoPages

\* C12 as stated: invoking Scan To Text File, whether it completes, is
\* aborted or is cancelled at a dialog, does not modify the scan cache.
C12_Original ==
    [][last'.op \in ExtractionOps \cup {"onScanToTextFile"}
        => saved_scanned_pages' = saved_scanned_pages]_vars

\* the entries of the extraction's log of kind e
Logged(e) == SelectSeq(extraction.log, LAMBDA n : n.e = e)

\* the progress notifications are the pages 1, 2, ... in this order, at most
\* one per page of the document, and nothing comes between them; the
\* completion summary is shown only after total notifications, the
\* dismissal of the indicator is the last thing that happens, and an
\* extraction that was not aborted ends with total notifications, then the
\* summary, then the dismissal
ProgressInOrder ==
    LET x == extraction
        n == Len(Updates(x))
    IN  /\ n <= x.total
        /\ \A i \in 1..n : x.log[i] = [e |-> "Update", v |-> i]
        /\ Len(Logged("summary")) <= 1
        /\ Len(Logged("summary")) = 1 => n = x.total /\ x.st = "finished"
        /\ x.st = "finished" <=> Len(Logged("Dismiss")) = 1
        /\ x.st = "finished" => x.log[Len(x.log)] = [e |-> "Dismiss", v |-> 0]
        /\ (x.st = "finished" /\ ~x.abort) =>
               /\ n = x.total
               /\ x.log = Updates(x) \o <<[e |-> "summary", v |-> x.total],
                                          [e |-> "Dismiss", v |-> 0]>>

C14_ConvertedOncePerContent ==
    /\ \A bytes \in Contents :
           /\ word.converted[bytes] <= 1
           /\ word.written[bytes] <= 1
    /\ \A h \in DOMAIN word.storage :
           \E bytes \in Contents :
               /\ h = generate_file_md5(bytes)
               /\ word.storage[h] = convert_to_html(bytes)

\* the steps that run in the background: the engine call of a scan, the
\* extraction thread and the engine process of a batch extraction
Background ==
    {"engine", "_continue_with_text_extraction", "scan_to_text",
     "progress_dlg.Update", "progress_dlg.Dismiss"}

\* C15: no step of the background (engine call, extraction thread, engine
\* process) changes the scan cache or the cached options (or the display);
\* and the success callback of a request runs only in _process_ocr_result,
\* on the UI thread, for a request whose engine call had finished before.
C15_CacheWrittenOnUIThreadOnly ==
    [][/\ last'.op \in Background =>
              /\ saved_scanned_pages' = saved_scanned_pages
              /\ stored_options' = stored_options
              /\ content' = content
       /\ Count(last'.processed.events, "callback") > 0 =>
              /\ last'.op = "_process_ocr_result"
              /\ \E req \in BagToSet(requests) :
                     /\ req.st = "done"
                     /\ last'.processed =
                            [req EXCEPT !.st = "processed",
                                        !.events = @ \o <<"callback", "ocr_ended">>]
      ]_vars

\* C15's case has happened: an engine call finished in the background while
\* a batch extraction is running and the scan cache holds a page
C15_Witness ==
    /\ Ran("engine")
    /\ extraction.st = "iterating"
    /\ extraction.produced > 0
    /\ saved_scanned_pages # NoPages

\* C16: a result whose request was dispatched before an invalidation of the
\* scan cache (document unload, non-cached option resolution) is not stored
\* into the cache after it: processing it does not invoke the callback that
\* caches it, and with no document loaded the cache stays empty.
C16_NoEntryFromBeforeInvalidation ==
    /\ (Ran("_process_ocr_result") /\ last.processed.kind = "page"
           /\ last.processed.outdated)
           => Count(last.processed.events, "callback") = 0
    /\ ~loaded => saved_scanned_pages = NoPages

\* C17: a request the user did not cancel and whose engine call returns a
\* result has its success callback invoked and ends with a non-faulted
\* ocr-ended, whatever happened to other requests.
C17_OwnResultDelivered ==
    \A req \in BagToSet(requests) :
        (req.st = "done" /\ ~req.dismissed) =>
            _process_ocr_result(Self, req, "result").processed.events =
                Started \o <<"callback", "ocr_ended">>

\* C18: whenever automatic OCR is enabled, options are cached; so the scan a
\* page change triggers never shows the options dialog (nor queries the
\* engine's languages for it).
C18_AutoScanHasOptions ==
    /\ auto_scan_item => stored_options # None
    /\ Ran("_on_reader_page_changed") => last.dlg = "none"

\* C19: a page-changed event runs onScanCurrentPage exactly once if
\* automatic OCR is enabled at that moment, and not at all if it is
\* disabled: then nothing but the reader's page and text changes; and the
\* answer to should-auto-navigate-to-next-page is the negation of the
\* automatic-OCR setting.
C19_PageChangeScansIffAuto ==
    /\ on_should_auto_navigate_to_next_page(Self) = ~auto_scan_item
    /\ \A p \in Pages, langs \in LanguageLists, choice \in DialogResults(FALSE) :
           LET s == _on_reader_page_changed(Self, p, langs, choice)
           IN  /\ s.scans = IF auto_scan_item THEN 1 ELSE 0
               /\ ~auto_scan_item =>
                      s = [Self EXCEPT !.current_page = p,
                                       !.content = PageText(p)]
               /\ (auto_scan_item /\ stored_options # None
                      /\ p \notin DOMAIN saved_scanned_pages) =>
                      s.ocr_started = ocr_started + 1

\* C19's case has happened: with automatic OCR on, a page change has
\* dispatched the one scan of the new page
C19_Witness ==
    /\ Ran("_on_reader_page_changed")
    /\ auto_scan_item
    /\ ocr_started = 1
    /\ \E req \in BagToSet(requests) :
           req.cookie = current_page /\ req.st = "running"

====
